---- MODULE Spec2Model ----
(***************************************************************************)
(* Bitnomon main window (src/main.py): the request-chain scheduler that    *)
(* polls the node once per timer tick, the handlers that feed the traffic  *)
(* ring buffers / block-arrival window, and plotNetTotals, which merges    *)
(* the long-term archive with the full-resolution ring buffers.            *)
(*                                                                         *)
(* Python values are encoded as follows.  None is the empty tuple and a    *)
(* present number v stored in a slot is <<v>>.  A plotted y value is None  *)
(* or a fraction <<num, den>> (den > 0), so that the float arithmetic of   *)
(* the interpolation is kept exact.  List index i of the source is         *)
(* position i+1 of a TLA+ sequence.                                        *)
(***************************************************************************)
EXTENDS Integers, Sequences, FiniteSets, TLC

(* ------------------------------ bounds -------------------------------- *)

\* Slots of a traffic ring buffer (traf_samples, 600 in the source).
TrafSamples == 3
\* Slots of the block-arrival window (24 in the source).
BlockSlots == 2
\* Chains the timer may start, and ticks it may fire while a chain runs.
MaxCycles == 2
MaxMissed == 1
\* getinfo replies fed to the block-arrival harness.
MaxObs == 6
\* Block counts of the harness are 99 .. 99 + BlockSpan.
BlockSpan == 3
\* Buckets one fetch_all of the archive yields, and their largest age.
MaxBuckets == 2
MaxAge == 6

VARIABLES
    busy,            \* self.busy
    missedSamples,   \* self.missedSamples
    chainIndex,      \* self.chainIndex
    replies,         \* self.replies: the reply handles of the current chain
    pending,         \* calls issued by proxy._call and not yet resolved
    cycle,           \* number of chains started so far
    ran,             \* handlers run in the current chain: [step, fault]
    errored,         \* the current chain was ended by netError
    now,             \* time.time(), in poll intervals
    lastBlockCount,  \* self.lastBlockCount
    blockRecvTimes,  \* self.blockRecvTimes
    trafRecv,        \* self.trafRecv
    trafSent,        \* self.trafSent
    rrdSamples,      \* number of samples handed to self.trafRRD.update
    trafRecvPlot,    \* last setData of self.trafRecvPlot: [x, y]
    trafSentPlot,    \* last setData of self.trafSentPlot: [x, y]
    mergeIn,         \* what the last plotNetTotals read: <<>> or <<record>>
    plotCalls,       \* calls of plotNetTotals since the last startChain
    observed         \* harness: the getinfo replies handled, [blocks, t]

schedVars == <<busy, missedSamples, chainIndex, replies, pending, cycle, ran, errored>>
blockVars == <<lastBlockCount, blockRecvTimes>>
trafVars == <<trafRecv, trafSent, rrdSamples>>
plotVars == <<trafRecvPlot, trafSentPlot, mergeIn>>
vars == <<schedVars, now, blockVars, trafVars, plotVars, plotCalls, observed>>

(* ------------------------- values and fractions ----------------------- *)

None == <<>>
Some(v) == <<v>>
removeNone(v) == IF v = None THEN 0 ELSE v[1]

Min(S) == CHOOSE x \in S : \A y \in S : x <= y
Max(S) == CHOOSE x \in S : \A y \in S : x >= y

Rat(n, d) == IF d < 0 THEN <<-n, -d>> ELSE <<n, d>>
RatOfInt(v) == <<v, 1>>
RatAdd(p, q) == Rat(p[1] * q[2] + q[1] * p[2], p[2] * q[2])
RatSub(p, q) == Rat(p[1] * q[2] - q[1] * p[2], p[2] * q[2])
RatMul(p, q) == Rat(p[1] * q[1], p[2] * q[2])
RatEq(p, q) == p[1] * q[2] = q[1] * p[2]

(* ----------------------- ring buffer (rrdmodel.RRA) -------------------- *)

RRA(size) == [data |-> [i \in 1..size |-> None], pos |-> 0]

RRAupdate(rra, v) ==
    [data |-> [rra.data EXCEPT ![rra.pos + 1] = Some(v)],
     pos |-> (rra.pos + 1) % Len(rra.data)]

\* rra[index]: index 0 is the slot written longest ago, -1 the newest.
RRAget(rra, index) == rra.data[((rra.pos + index) % Len(rra.data)) + 1]

difference(rra, i, j) ==
    IF RRAget(rra, i) = None \/ RRAget(rra, j) = None
    THEN None
    ELSE RatOfInt(RRAget(rra, i)[1] - RRAget(rra, j)[1])

\* The consecutive differences in the order of the plot domain (oldest first).
differences(rra) == [k \in 1..(Len(rra.data) - 1) |-> difference(rra, k, k - 1)]

\* Ages and times count poll intervals; time 0 is the start of the run, so
\* an archive bucket written before it has a negative timestamp.
ageOfTime(nowT, t) == nowT - t

(* --------------------------- block arrivals --------------------------- *)

\* Mutant: a count equal to the last one seen is taken for a new block.
updateInfo_countsEqual(info, fault) ==
    IF fault = "start" THEN UNCHANGED blockVars
    ELSE IF lastBlockCount = None
    THEN /\ lastBlockCount' = Some(info.blocks)
         /\ UNCHANGED blockRecvTimes
    ELSE IF info.blocks >= lastBlockCount[1]
    THEN /\ lastBlockCount' = Some(info.blocks)
         /\ blockRecvTimes' = RRAupdate(blockRecvTimes, now)
    ELSE UNCHANGED blockVars

\* updateInfo: fault "start" is a reply whose payload lacks a key.
updateInfo(info, fault) ==
    IF fault = "start" THEN UNCHANGED blockVars
    ELSE IF lastBlockCount = None
    THEN /\ lastBlockCount' = Some(info.blocks)
         /\ UNCHANGED blockRecvTimes
    ELSE IF info.blocks > lastBlockCount[1]
    THEN /\ lastBlockCount' = Some(info.blocks)
         /\ blockRecvTimes' = RRAupdate(blockRecvTimes, now)
    ELSE UNCHANGED blockVars

\* updateMiningInfo only writes labels of the window.
updateMiningInfo(info, fault) == TRUE

(* ------------------------------ traffic -------------------------------- *)

\* updateNetTotals: a fault leaves the updates made before it in place.
\* "start": totalbytesrecv is missing; "afterRecv": totalbytessent is
\* missing; "afterSent": timemillis is missing or trafRRD.update raises.
updateNetTotals(totals, fault) ==
    /\ trafRecv' = IF fault = "start" THEN trafRecv
                   ELSE RRAupdate(trafRecv, totals.totalbytesrecv)
    /\ trafSent' = IF fault \in {"start", "afterRecv"} THEN trafSent
                   ELSE RRAupdate(trafSent, totals.totalbytessent)
    /\ rrdSamples' = IF fault = "none" THEN rrdSamples + 1 ELSE rrdSamples

\* Mutant: the domain has one age per sample instead of one per interval.
trafPlotDomain_perSample == [s \in 1..TrafSamples |-> ageOfTime(TrafSamples, s)]

\* self.trafPlotDomain: the ages of the traf_intervals plotted differences.
trafPlotDomain == [s \in 1..(TrafSamples - 1) |-> ageOfTime(TrafSamples - 1, s)]

\* The indexes of the plot domain whose receive slot is filled.
filledIndexes(rra) == {i \in 0..(Len(trafPlotDomain) - 1) : RRAget(rra, i) # None}

\* The loop variable after the scan: the first filled index, or the last index
\* of the domain when the loop ends without a break.
oldestFullResIndex(rra) ==
    IF filledIndexes(rra) = {} THEN Len(trafPlotDomain) - 1
    ELSE Min(filledIndexes(rra))

oldestFullResAge(rra) ==
    IF filledIndexes(rra) = {} THEN 0
    ELSE trafPlotDomain[oldestFullResIndex(rra) + 1]

bucketAge(bucket, nowT) == ageOfTime(nowT, bucket.t)

\* Mutant: a bucket exactly at the boundary is kept (>= for >).
breakAt_keepsBoundary(buckets, nowT, boundary) ==
    LET stops == {j \in 1..Len(buckets) : ~(bucketAge(buckets[j], nowT) >= boundary)}
    IN IF stops = {} THEN 0 ELSE Min(stops)

\* Position of the bucket at which the archive loop breaks; 0 if it never does.
breakAt(buckets, nowT, boundary) ==
    LET stops == {j \in 1..Len(buckets) : ~(bucketAge(buckets[j], nowT) > boundary)}
    IN IF stops = {} THEN 0 ELSE Min(stops)

\* Mutant: the bucket that ends the scan is appended as well.
keptLen_includesStop(buckets, nowT, boundary) ==
    IF breakAt(buckets, nowT, boundary) = 0 THEN Len(buckets)
    ELSE breakAt(buckets, nowT, boundary)

\* Number of buckets appended to ages/recv/sent by the archive loop.
keptLen(buckets, nowT, boundary) ==
    IF breakAt(buckets, nowT, boundary) = 0 THEN Len(buckets)
    ELSE breakAt(buckets, nowT, boundary) - 1

\* Position of the bucket the loop variables (t, values), age hold afterwards.
loopVarAt(buckets, nowT, boundary) ==
    IF breakAt(buckets, nowT, boundary) = 0 THEN Len(buckets)
    ELSE breakAt(buckets, nowT, boundary)

\* blend = (oldestFullResAge - age) / (prevAge - age), as a real division.
blendOf(boundary, age, prevAge) == Rat(boundary - age, prevAge - age)

\* Mutant: the two ends of the blend are exchanged.
interpolate_swapped(a, b, blend) ==
    RatAdd(RatMul(b, RatSub(RatOfInt(1), blend)), RatMul(a, blend))

\* interpolate = lambda a, b: a*(1.0-blend) + b*blend
interpolate(a, b, blend) ==
    RatAdd(RatMul(a, RatSub(RatOfInt(1), blend)), RatMul(b, blend))

\* Mutant: a point is inserted whenever a bucket was kept.
interpolated_whenKept(buckets, nowT, boundary) ==
    keptLen(buckets, nowT, boundary) > 0

\* if len(ages) > 0: prevAge = ages[-1]; if age != prevAge: ...
interpolated(buckets, nowT, boundary) ==
    /\ keptLen(buckets, nowT, boundary) > 0
    /\ bucketAge(buckets[loopVarAt(buckets, nowT, boundary)], nowT)
         # bucketAge(buckets[keptLen(buckets, nowT, boundary)], nowT)

\* The lists plotNetTotals hands to setData, from the traffic ring buffers,
\* the buckets fetch_all yields and the time read at the start of the merge
\* (which: 1 is the receive column, 2 the send column).  The slice
\* [oldestFullResIndex:] is SubSeq from position start + 1.
mergeSeries(recvRRA, sentRRA, buckets, nowT) ==
    LET boundary == oldestFullResAge(recvRRA)
        n == keptLen(buckets, nowT, boundary)
        interp == interpolated(buckets, nowT, boundary)
        last == buckets[loopVarAt(buckets, nowT, boundary)]
        age == bucketAge(last, nowT)
        prevAge == bucketAge(buckets[n], nowT)
        blend == blendOf(boundary, age, prevAge)
        start == IF interp THEN oldestFullResIndex(recvRRA) + 1
                 ELSE oldestFullResIndex(recvRRA)
        archive(which) == [j \in 1..n |-> RatOfInt(removeNone(buckets[j].values[which]))]
        point(which) ==
            IF interp
            THEN <<interpolate(RatOfInt(removeNone(last.values[which])),
                               archive(which)[n], blend)>>
            ELSE <<>>
        tail(s) == SubSeq(s, start + 1, Len(s))
    IN [ages |-> [j \in 1..n |-> bucketAge(buckets[j], nowT)]
                 \o (IF interp THEN <<boundary>> ELSE <<>>)
                 \o tail(trafPlotDomain),
        recv |-> archive(1) \o point(1) \o tail(differences(recvRRA)),
        sent |-> archive(2) \o point(2) \o tail(differences(sentRRA))]

\* Mutant: the three lists are kept between calls instead of being rebuilt.
plotNetTotals_retains(buckets) ==
    LET m == mergeSeries(trafRecv, trafSent, buckets, now)
    IN /\ trafRecvPlot' = [x |-> trafRecvPlot.x \o m.ages, y |-> trafRecvPlot.y \o m.recv]
       /\ trafSentPlot' = [x |-> trafSentPlot.x \o m.ages, y |-> trafSentPlot.y \o m.sent]
       /\ mergeIn' = <<[recv |-> trafRecv, sent |-> trafSent,
                        buckets |-> buckets, now |-> now]>>
       /\ plotCalls' = plotCalls + 1

\* plotNetTotals with the buckets this call of trafRRD.fetch_all yields.
plotNetTotals(buckets) ==
    LET m == mergeSeries(trafRecv, trafSent, buckets, now)
    IN /\ trafRecvPlot' = [x |-> m.ages, y |-> m.recv]
       /\ trafSentPlot' = [x |-> m.ages, y |-> m.sent]
       /\ mergeIn' = <<[recv |-> trafRecv, sent |-> trafSent,
                        buckets |-> buckets, now |-> now]>>
       /\ plotCalls' = plotCalls + 1

\* plotNetTotals is called and fetch_all raises in it, before setData.
plotNetTotalsRaises ==
    /\ UNCHANGED plotVars
    /\ plotCalls' = plotCalls + 1

\* Mutant: the mempool handler does not redraw the traffic curves.
updateMemPool_noPlot(buckets, fault) == UNCHANGED <<plotVars, plotCalls>>

\* updateMemPool: "start" is fetch_all raising inside plotNetTotals, before
\* setData; "afterPlot" is a malformed mempool entry.
updateMemPool(buckets, fault) ==
    IF fault = "start" THEN plotNetTotalsRaises ELSE plotNetTotals(buckets)

(* ------------------------------ scheduler ------------------------------ *)

\* The methods of the chain, in the order the decorators register them.
commandChain == <<"getinfo", "getmininginfo", "getnettotals", "getrawmempool">>

\* Mutant: the step index is not advanced after a call is issued.
nextChainedRequest_noIncrement(index, list, lock, unresolved) ==
    IF index >= Len(commandChain)
    THEN /\ busy' = FALSE
         /\ chainIndex' = index
         /\ replies' = list
         /\ pending' = unresolved
    ELSE LET reply == [chain |-> cycle', step |-> index]
         IN /\ busy' = lock
            /\ pending' = unresolved \cup {reply}
            /\ replies' = Append(list, reply)
            /\ chainIndex' = index

\* Mutant: the reply handle of an issued call is not kept in the list.
nextChainedRequest_dropsReply(index, list, lock, unresolved) ==
    IF index >= Len(commandChain)
    THEN /\ busy' = FALSE
         /\ chainIndex' = index
         /\ replies' = list
         /\ pending' = unresolved
    ELSE LET reply == [chain |-> cycle', step |-> index]
         IN /\ busy' = lock
            /\ pending' = unresolved \cup {reply}
            /\ replies' = list
            /\ chainIndex' = index + 1

\* Mutant: the end of the chain does not release the lock.
nextChainedRequest_noUnlock(index, list, lock, unresolved) ==
    IF index >= Len(commandChain)
    THEN /\ busy' = lock
         /\ chainIndex' = index
         /\ replies' = list
         /\ pending' = unresolved
    ELSE LET reply == [chain |-> cycle', step |-> index]
         IN /\ busy' = lock
            /\ pending' = unresolved \cup {reply}
            /\ replies' = Append(list, reply)
            /\ chainIndex' = index + 1

\* nextChainedRequest, from the chainIndex, replies and busy its caller leaves
\* and the calls still unresolved.  A reply handle is [chain, step]; its
\* finished signal is bound to the slot of commandChain[step].
nextChainedRequest(index, list, lock, unresolved) ==
    IF index >= Len(commandChain)
    THEN /\ busy' = FALSE
         /\ chainIndex' = index
         /\ replies' = list
         /\ pending' = unresolved
    ELSE LET reply == [chain |-> cycle', step |-> index]
         IN /\ busy' = lock
            /\ pending' = unresolved \cup {reply}
            /\ replies' = Append(list, reply)
            /\ chainIndex' = index + 1

\* Mutant: the reply list of the previous chain is not dropped.
startChain_keepsReplies ==
    /\ cycle' = cycle + 1
    /\ ran' = <<>>
    /\ errored' = FALSE
    /\ plotCalls' = 0
    /\ nextChainedRequest(0, replies, TRUE, pending)

startChain ==
    /\ cycle' = cycle + 1
    /\ ran' = <<>>
    /\ errored' = FALSE
    /\ plotCalls' = 0
    /\ nextChainedRequest(0, <<>>, TRUE, pending)

\* Mutant: the timer slot does not look at the lock.
update_ignoresBusy ==
    /\ startChain
    /\ UNCHANGED missedSamples

\* Mutant: a tick that finds the chain busy is not counted.
update_skipsCount ==
    IF busy
    THEN UNCHANGED <<missedSamples, busy, chainIndex, replies, pending, cycle, ran, errored,
                     plotCalls>>
    ELSE /\ startChain
         /\ UNCHANGED missedSamples

\* The slot of the polling timer.
update ==
    IF busy
    THEN /\ missedSamples' = missedSamples + 1
         /\ UNCHANGED <<busy, chainIndex, replies, pending, cycle, ran, errored, plotCalls>>
    ELSE /\ startChain
         /\ UNCHANGED missedSamples

\* Mutant: a handler's fault is not caught, so the chain is not advanced.
handlerWrapper_propagates(reply, responseHandler, fault) ==
    /\ responseHandler
    /\ ran' = Append(ran, [step |-> reply.step, fault |-> fault # "none"])
    /\ UNCHANGED <<missedSamples, cycle, errored>>
    /\ IF fault = "none"
       THEN nextChainedRequest(chainIndex, replies, busy, pending \ {reply})
       ELSE /\ pending' = pending \ {reply}
            /\ UNCHANGED <<busy, chainIndex, replies>>

\* handlerWrapper: the handler's fault is caught and printed, then the chain
\* advances.  responseHandler is the action of the decorated handler.
handlerWrapper(reply, responseHandler, fault) ==
    /\ responseHandler
    /\ ran' = Append(ran, [step |-> reply.step, fault |-> fault # "none"])
    /\ UNCHANGED <<missedSamples, cycle, errored>>
    /\ nextChainedRequest(chainIndex, replies, busy, pending \ {reply})

\* Mutant: the error slot does not unlock the chain.
netError_staysBusy(reply, buckets, plotFault) ==
    /\ busy' = busy
    /\ pending' = pending \ {reply}
    /\ errored' = TRUE
    /\ IF plotFault THEN plotNetTotalsRaises ELSE plotNetTotals(buckets)
    /\ UNCHANGED <<missedSamples, chainIndex, replies, cycle, ran>>

\* Mutant: the reply that signalled the error is still delivered afterwards.
netError_leavesPending(reply, buckets, plotFault) ==
    /\ busy' = FALSE
    /\ pending' = pending
    /\ errored' = TRUE
    /\ IF plotFault THEN plotNetTotalsRaises ELSE plotNetTotals(buckets)
    /\ UNCHANGED <<missedSamples, chainIndex, replies, cycle, ran>>

\* netError: the error signal of a reply.  plotFault is fetch_all raising
\* inside plotNetTotals, which leaves the plots as they were.
netError(reply, buckets, plotFault) ==
    /\ busy' = FALSE
    /\ pending' = pending \ {reply}
    /\ errored' = TRUE
    /\ IF plotFault THEN plotNetTotalsRaises ELSE plotNetTotals(buckets)
    /\ UNCHANGED <<missedSamples, chainIndex, replies, cycle, ran>>

(* ------------------------------- inputs -------------------------------- *)

BoundedSeq(S, n) == UNION {[1..k -> S] : k \in 0..n}

\* getinfo replies of the program run, and of the block-arrival harness.
InfoReplies == {[blocks |-> b] : b \in {100, 101}}
BlockCounts == 99..(99 + BlockSpan)

\* getnettotals replies of the program run.
SchedTotals == {[totalbytesrecv |-> 10, totalbytessent |-> 20]}

\* getnettotals replies of the merge harness.
TotalsReplies ==
    {[totalbytesrecv |-> 10, totalbytessent |-> 20],
     [totalbytesrecv |-> 30, totalbytessent |-> 50]}

\* (recv, sent) averages of an archive bucket; None is an unknown average.
ArchiveValues == {<<Some(100), Some(120)>>, <<Some(120), None>>}

\* What one fetch_all may yield at time nowT: up to n buckets, in any order.
Archives(n, ages, nowT) ==
    BoundedSeq({[t |-> nowT - a, values |-> v] : a \in ages, v \in ArchiveValues}, n)

\* The archive of the program run: no bucket, or one older than the ring buffer.
SchedArchives(nowT) == Archives(1, {TrafSamples}, nowT)

(* --------------------------- the program run --------------------------- *)

Init ==
    /\ busy = FALSE
    /\ missedSamples = 0
    /\ chainIndex = 0
    /\ replies = <<>>
    /\ pending = {}
    /\ cycle = 0
    /\ ran = <<>>
    /\ errored = FALSE
    /\ now = 0
    /\ lastBlockCount = None
    /\ blockRecvTimes = RRA(BlockSlots)
    /\ trafRecv = RRA(TrafSamples)
    /\ trafSent = RRA(TrafSamples)
    /\ rrdSamples = 0
    /\ trafRecvPlot = [x |-> <<>>, y |-> <<>>]
    /\ trafSentPlot = [x |-> <<>>, y |-> <<>>]
    /\ mergeIn = <<>>
    /\ plotCalls = 0
    /\ observed = <<>>

\* The timer fires; time advances by one poll interval.
Tick ==
    /\ busy => missedSamples < MaxMissed
    /\ ~busy => cycle < MaxCycles
    /\ now' = now + 1
    /\ update
    /\ UNCHANGED <<blockVars, trafVars, plotVars, observed>>

FinishedInfo ==
    \E reply \in pending, info \in InfoReplies, fault \in {"none", "start"} :
        /\ commandChain[reply.step + 1] = "getinfo"
        /\ handlerWrapper(reply, updateInfo(info, fault), fault)
        /\ UNCHANGED <<now, trafVars, plotVars, plotCalls, observed>>

FinishedMiningInfo ==
    \E reply \in pending, fault \in {"none", "start"} :
        /\ commandChain[reply.step + 1] = "getmininginfo"
        /\ handlerWrapper(reply, updateMiningInfo(<<>>, fault), fault)
        /\ UNCHANGED <<now, blockVars, trafVars, plotVars, plotCalls, observed>>

FinishedNetTotals ==
    \E reply \in pending, totals \in SchedTotals,
       fault \in {"none", "start", "afterRecv", "afterSent"} :
        /\ commandChain[reply.step + 1] = "getnettotals"
        /\ handlerWrapper(reply, updateNetTotals(totals, fault), fault)
        /\ UNCHANGED <<now, blockVars, plotVars, plotCalls, observed>>

FinishedMemPool ==
    \E reply \in pending, buckets \in SchedArchives(now),
       fault \in {"none", "start", "afterPlot"} :
        /\ commandChain[reply.step + 1] = "getrawmempool"
        /\ handlerWrapper(reply, updateMemPool(buckets, fault), fault)
        /\ UNCHANGED <<now, blockVars, trafVars, observed>>

Error ==
    \E reply \in pending, buckets \in SchedArchives(now), plotFault \in BOOLEAN :
        /\ netError(reply, buckets, plotFault)
        /\ UNCHANGED <<now, blockVars, trafVars, observed>>

Next ==
    \/ Tick
    \/ FinishedInfo
    \/ FinishedMiningInfo
    \/ FinishedNetTotals
    \/ FinishedMemPool
    \/ Error

Spec == Init /\ [][Next]_vars

\* A reply signals finished or error.
Resolve ==
    \/ FinishedInfo
    \/ FinishedMiningInfo
    \/ FinishedNetTotals
    \/ FinishedMemPool
    \/ Error

\* The program run when every issued call is resolved in the end and the
\* timer keeps firing (as long as the bounds let it).
SpecLive == Spec /\ WF_vars(Resolve) /\ WF_vars(Tick)

(* ---------------------- the block-arrival harness ---------------------- *)

\* A getinfo reply with any block count is handled at time now.
Observe ==
    /\ now < MaxObs
    /\ \E b \in BlockCounts :
        /\ updateInfo([blocks |-> b], "none")
        /\ observed' = Append(observed, [blocks |-> b, t |-> now])
    /\ now' = now + 1
    /\ UNCHANGED <<schedVars, trafVars, plotVars, plotCalls>>

\* A getinfo reply that makes updateInfo raise is handled at time now.
ObserveFault ==
    /\ now < MaxObs
    /\ updateInfo([blocks |-> 0], "start")
    /\ now' = now + 1
    /\ UNCHANGED <<schedVars, trafVars, plotVars, plotCalls, observed>>

NextBlocks == Observe \/ ObserveFault

SpecBlocks == Init /\ [][NextBlocks]_vars

(* -------------------------- the merge harness -------------------------- *)

\* A getnettotals reply is handled: up to one more sample than the ring holds.
Sample ==
    /\ plotCalls = 0
    /\ rrdSamples <= TrafSamples
    /\ \E totals \in TotalsReplies : updateNetTotals(totals, "none")
    /\ UNCHANGED <<schedVars, now, blockVars, plotVars, plotCalls, observed>>

\* plotNetTotals runs once, on any archive.
Plot ==
    /\ plotCalls = 0
    /\ \E buckets \in Archives(MaxBuckets, 0..MaxAge, now) : plotNetTotals(buckets)
    /\ UNCHANGED <<schedVars, now, blockVars, trafVars, observed>>

NextMerge == Sample \/ Plot

SpecMerge == Init /\ [][NextMerge]_vars

(* ----------------------- the merge harness, twice ---------------------- *)

\* plotNetTotals runs a second time: nothing was written in between, the
\* clock reads the same and fetch_all yields the same buckets.
Replot ==
    /\ plotCalls = 1
    /\ plotNetTotals(mergeIn[1].buckets)
    /\ UNCHANGED <<schedVars, now, blockVars, trafVars, observed>>

NextReplot == Sample \/ Plot \/ Replot

SpecReplot == Init /\ [][NextReplot]_vars

(* ------------------------- scheduler properties ------------------------ *)

ChainLength == Len(commandChain)
IssuedBy(c) == [chain |-> c, step |-> 0]

\* C1: at most one chain is in flight and at most one call is unresolved.  An
\* unresolved call belongs to the chain started last, is the newest entry of
\* the reply list, and exists only while busy; a call is issued only by
\* startChain from Idle with nothing unresolved (step 0) or by the handler
\* wrapper that has just consumed the reply of the step before it.
C1_OneCallInFlight ==
    /\ [](/\ Cardinality(pending) <= 1
          /\ \A c \in pending :
                /\ busy
                /\ c.chain = cycle
                /\ c.step = chainIndex - 1
                /\ replies[Len(replies)] = c
          /\ {c.chain : c \in pending} \subseteq {cycle})
    /\ [][\A c \in pending' \ pending :
            \/ ~busy /\ pending = {} /\ c = [chain |-> cycle + 1, step |-> 0]
                /\ now' # now
            \/ /\ pending = {[chain |-> c.chain, step |-> c.step - 1]}
               /\ Len(ran') = Len(ran) + 1
               /\ ran'[Len(ran')].step = c.step - 1]_vars

\* C1 witness: a call of a later step is unresolved in the second chain.
C1_Witness == cycle = 2 /\ pending = {[chain |-> 2, step |-> 2]}

\* C2: a tick that fires while busy adds exactly 1 to missedSamples and leaves
\* chainIndex, replies, busy and the unresolved call alone (no chain starts);
\* nothing else changes missedSamples, so it equals the number of ticks
\* (now) minus the ticks that started a chain (cycle).
C2_MissedTick ==
    /\ [](missedSamples = now - cycle)
    /\ [][/\ (now' # now /\ busy) =>
                /\ missedSamples' = missedSamples + 1
                /\ UNCHANGED <<chainIndex, replies, busy, pending, cycle>>
          /\ missedSamples' # missedSamples => (now' # now /\ busy)]_vars

\* C2 witness: a tick has fired while the chain was waiting for a reply.
C2_Witness == busy /\ missedSamples > 0 /\ pending # {}

\* C3: a transport error leaves the scheduler Idle at once, with no call
\* unresolved; the errored step's handler has not run, and until the next
\* chain nothing runs or is issued; what ends that state is a tick that
\* issues step 0 of a new chain.
C3_ErrorTruncates ==
    /\ [](errored =>
            /\ ~busy
            /\ pending = {}
            /\ Len(ran) = chainIndex - 1
            /\ Len(replies) = chainIndex)
    /\ [][/\ errored' /\ ~errored => UNCHANGED <<ran, replies, chainIndex>>
          /\ errored /\ errored' => UNCHANGED <<ran, replies, chainIndex, pending>>
          /\ errored /\ ~errored' =>
                /\ now' # now
                /\ ran' = <<>>
                /\ pending' = {IssuedBy(cycle + 1)}]_vars

\* C3 witness: step 1 of a chain has errored; steps 2 and 3 have not run.
C3_Witness == errored /\ chainIndex = 2 /\ Len(ran) = 1

\* What the handler wrapper of step k leaves behind when it advances.
Advanced(k) ==
    IF k + 1 < ChainLength
    THEN busy' /\ pending' = {[chain |-> cycle, step |-> k + 1]}
         /\ chainIndex' = k + 2
    ELSE ~busy' /\ pending' = {}

\* C4: when a handler has run, with or without a fault, the chain advances:
\* the call of the next step is issued, or after the last step the scheduler
\* is Idle; busy is never true with no call unresolved.
C4_FaultIsolated ==
    /\ [](busy => pending # {})
    /\ [][Len(ran') = Len(ran) + 1 => Advanced(ran'[Len(ran')].step)]_vars

\* C4 witness: the handler of step 2 faulted and the call of step 3 is out.
C4_Witness ==
    /\ Len(ran) = 3
    /\ ran[3].fault
    /\ pending = {[chain |-> cycle, step |-> 3]}

\* C4 witness of the last step: its handler faulted and the scheduler is Idle.
C4_WitnessLast == Len(ran) = ChainLength /\ ran[ChainLength].fault /\ ~busy

\* C5: the handlers of a cycle run in chain order, each at most once; while
\* busy exactly the steps before the unresolved one have run; a cycle without
\* a transport error is Idle only when all of them have run.
C5_HandlerOrder ==
    /\ Len(ran) <= ChainLength
    /\ \A i \in 1..Len(ran) : ran[i].step = i - 1
    /\ busy => Len(ran) = chainIndex - 1
    /\ (~busy /\ cycle > 0 /\ ~errored) => Len(ran) = ChainLength

\* C5 witness: a cycle has run all four handlers and is Idle.
C5_Witness == ~busy /\ ~errored /\ [i \in 1..Len(ran) |-> ran[i].step] = <<0, 1, 2, 3>>

\* C6: a tick in Idle starts a chain: the reply list holds the handle of
\* step 0 only, busy is true, exactly the call of step 0 is issued and
\* missedSamples is unchanged.
C6_TickStartsChain ==
    [][(now' # now /\ ~busy) =>
            /\ busy'
            /\ replies' = <<IssuedBy(cycle')>>
            /\ pending' = pending \cup {IssuedBy(cycle')}
            /\ chainIndex' = 1
            /\ cycle' = cycle + 1
            /\ missedSamples' = missedSamples]_vars

\* C6 witness: a second chain has started after a first one filled the list.
C6_Witness == cycle = 2 /\ busy /\ replies = <<IssuedBy(2)>>

(* ------------------------ block-arrival properties --------------------- *)

\* The times of the observations, after the first, whose count exceeds every
\* count observed before them.
RECURSIVE NewHighTimes(_)
NewHighTimes(obs) ==
    IF Len(obs) <= 1 THEN <<>>
    ELSE LET front == SubSeq(obs, 1, Len(obs) - 1)
             seen == {front[j].blocks : j \in 1..Len(front)}
         IN IF \A c \in seen : obs[Len(obs)].blocks > c
            THEN Append(NewHighTimes(front), obs[Len(obs)].t)
            ELSE NewHighTimes(front)

\* The window, oldest slot first.
WindowOf(rra) == [i \in 1..Len(rra.data) |-> RRAget(rra, i - 1)]

\* The last Len(rra.data) entries of times, behind the slots still absent.
ExpectedWindow(times, size) ==
    [i \in 1..size |->
        IF Len(times) - size + i >= 1 THEN Some(times[Len(times) - size + i]) ELSE None]

\* C7: the first observation only sets the baseline; afterwards an arrival is
\* recorded, and lastSeen raised, exactly by an observation whose count is
\* above lastSeen, i.e. above every count observed before.  So lastSeen is the
\* largest count observed, a jump of several blocks is one arrival, and the
\* counts 100,100,101,101,99,102 leave the times of the third and the sixth
\* observation, and nothing else, as the newest entries of the window.
C7_BlockArrivals ==
    LET counts == [i \in 1..Len(observed) |-> observed[i].blocks]
    IN /\ lastBlockCount =
            IF observed = <<>> THEN None
            ELSE Some(Max({counts[i] : i \in 1..Len(counts)}))
       /\ WindowOf(blockRecvTimes) = ExpectedWindow(NewHighTimes(observed), BlockSlots)
       /\ counts = <<100, 100, 101, 101, 99, 102>> =>
            /\ RRAget(blockRecvTimes, -1) = Some(observed[6].t)
            /\ RRAget(blockRecvTimes, -2) = Some(observed[3].t)
            /\ \A i \in 0..(BlockSlots - 3) : RRAget(blockRecvTimes, i) = None

\* C7 witness: the counts 100,100,101,101,99,102 were observed at t0..t5 and
\* the window holds t2 and t5.
C7_Witness ==
    /\ observed = [i \in 1..6 |->
            [blocks |-> <<100, 100, 101, 101, 99, 102>>[i], t |-> i - 1]]
    /\ WindowOf(blockRecvTimes) = <<Some(2), Some(5)>>
    /\ lastBlockCount = Some(102)

(* ---------------------------- merge properties ------------------------- *)

\* What the last merge read, named as in the spec.  In* are defined from the
\* ring buffer's slots and the buckets themselves.
InRecv == mergeIn[1].recv
InSent == mergeIn[1].sent
InBuckets == mergeIn[1].buckets
InAge(j) == mergeIn[1].now - InBuckets[j].t
InValue(j, which) ==
    IF InBuckets[j].values[which] = None THEN 0 ELSE InBuckets[j].values[which][1]
DomainLen == TrafSamples - 1
\* Indexes of the plot domain whose receive slot was filled.
InFilled == {i \in 0..(DomainLen - 1) : RRAget(InRecv, i) # None}
BoundaryAge == IF InFilled = {} THEN 0 ELSE DomainLen - 1 - Min(InFilled)
\* Buckets at or before the boundary, and the number of buckets kept.
InStops == {j \in 1..Len(InBuckets) : InAge(j) <= BoundaryAge}
InKept == IF InStops = {} THEN Len(InBuckets) ELSE Min(InStops) - 1
\* The full-resolution value at domain index i of a ring buffer.
FullRes(rra, i) == RRAget(rra, i + 1)[1] - RRAget(rra, i)[1]
\* v1 + (v2 - v1) * ((a1 - a) / (a1 - a2)), as a fraction.
Blend(v1, a1, v2, a2, a) == <<v1 * (a1 - a2) + (v2 - v1) * (a1 - a), a1 - a2>>

\* C8 as claimed: whenever the archive contributed a bucket, the point after
\* the archive points is at boundaryAge and is the blend of the last archive
\* bucket's value and the full-resolution value at the boundary, with
\* fraction (boundaryAge - ageLast) / (ageFirstFullRes - ageLast).
C8_Original ==
    (mergeIn # <<>> /\ InKept > 0 /\ InFilled # {}) =>
        LET ageLast == InAge(InKept)
            ageFirstFullRes == BoundaryAge
            full(rra) == FullRes(rra, Min(InFilled))
            claimed(rra, which) ==
                Blend(InValue(InKept, which), ageLast, full(rra), ageFirstFullRes,
                      BoundaryAge)
        IN /\ trafRecvPlot.x[InKept + 1] = BoundaryAge
           /\ RatEq(trafRecvPlot.y[InKept + 1], claimed(InRecv, 1))

\* C8 as amended: when the archive scan kept at least one bucket and stopped
\* at a bucket at or before boundaryAge, the point inserted at boundaryAge is
\* the blend of the last kept bucket's value and the value of the bucket the
\* scan stopped at (an unknown average counting as 0):
\* kept + (stop - kept) * ((ageKept - boundaryAge) / (ageKept - ageStop)),
\* for both columns; otherwise no point is inserted.
C8_BoundaryBlend ==
    mergeIn # <<>> =>
        LET start == IF InFilled = {} THEN DomainLen - 1 ELSE Min(InFilled)
            stop == Min(InStops)
            expected(which) ==
                Blend(InValue(InKept, which), InAge(InKept),
                      InValue(stop, which), InAge(stop), BoundaryAge)
        IN IF InStops # {} /\ InKept > 0
           THEN /\ Len(trafRecvPlot.x) = InKept + 1 + (DomainLen - start - 1)
                /\ trafRecvPlot.x[InKept + 1] = BoundaryAge
                /\ trafSentPlot.x[InKept + 1] = BoundaryAge
                /\ RatEq(trafRecvPlot.y[InKept + 1], expected(1))
                /\ RatEq(trafSentPlot.y[InKept + 1], expected(2))
           ELSE /\ Len(trafRecvPlot.x) = InKept + (DomainLen - start)
                /\ \A p \in 1..InKept : trafRecvPlot.x[p] = InAge(p)
                /\ \A p \in (InKept + 1)..Len(trafRecvPlot.x) :
                        trafRecvPlot.x[p] = DomainLen - (start + p - InKept)

\* C8 witness: the kept bucket is 5 older than the boundary and has value
\* 100, the bucket the scan stopped at is 1 younger and has value 120; the
\* inserted receive point is 100 + (120 - 100) * (5 / 6) = 350 / 3.
C8_Witness ==
    /\ mergeIn # <<>>
    /\ Len(InBuckets) = 2
    /\ InFilled # {}
    /\ InAge(1) = BoundaryAge + 5 /\ InValue(1, 1) = 100
    /\ InAge(2) = BoundaryAge - 1 /\ InValue(2, 1) = 120
    /\ trafRecvPlot.x[2] = BoundaryAge
    /\ RatEq(trafRecvPlot.y[2], <<350, 3>>)

\* The archive points of a merged series: the kept buckets, in order.
Drained(which) == [j \in 1..InKept |-> <<InValue(j, which), 1>>]

\* C9 as claimed: when every slot of the ring buffer is absent, the merged
\* series is exactly the buckets drained from the archive.
C9_ColdStart ==
    (mergeIn # <<>> /\ \A i \in 1..TrafSamples : InRecv.data[i] = None) =>
        /\ trafRecvPlot.x = [j \in 1..InKept |-> InAge(j)]
        /\ trafRecvPlot.y = Drained(1)
        /\ trafSentPlot.x = trafRecvPlot.x
        /\ trafSentPlot.y = Drained(2)

\* The full-resolution series of a ring buffer from domain index i onward.
FullResAges(i) == [p \in 1..(DomainLen - i) |-> DomainLen - (i + p)]
FullResSeries(rra, i) ==
    [p \in 1..(DomainLen - i) |->
        IF RRAget(rra, i + p) = None \/ RRAget(rra, i + p - 1) = None THEN None
        ELSE <<FullRes(rra, i + p - 1), 1>>]

\* C10 as claimed: when the archive yields no bucket, the merged series is
\* the age domain and the consecutive differences from the first filled index
\* onward (nothing, when no index is filled).
C10_EmptyArchive ==
    (mergeIn # <<>> /\ InBuckets = <<>>) =>
        LET first == IF InFilled = {} THEN DomainLen ELSE Min(InFilled)
        IN /\ trafRecvPlot.x = FullResAges(first)
           /\ trafRecvPlot.y = FullResSeries(InRecv, first)
           /\ trafSentPlot.x = FullResAges(first)
           /\ trafSentPlot.y = FullResSeries(InSent, first)

\* The part of C10 that holds: with an empty archive and a filled index in
\* the plot domain, the merged series is the full-resolution series from the
\* first filled index onward.
EmptyArchiveFromFirstFilled ==
    (mergeIn # <<>> /\ InBuckets = <<>> /\ InFilled # {}) =>
        /\ trafRecvPlot.x = FullResAges(Min(InFilled))
        /\ trafRecvPlot.y = FullResSeries(InRecv, Min(InFilled))
        /\ trafSentPlot.x = FullResAges(Min(InFilled))
        /\ trafSentPlot.y = FullResSeries(InSent, Min(InFilled))

StrictlyDecreasing(s) == \A p \in 1..(Len(s) - 1) : s[p] > s[p + 1]
StrictlyIncreasing(s) == \A p \in 1..(Len(s) - 1) : s[p] < s[p + 1]
NewestFirst == \A j \in 1..(Len(InBuckets) - 1) : InBuckets[j].t > InBuckets[j + 1].t
OldestFirst == \A j \in 1..(Len(InBuckets) - 1) : InBuckets[j].t < InBuckets[j + 1].t

C13_PollingNeverStops ==
    /\ busy ~> ~busy
    /\ [](busy => pending # {})
    /\ [][cycle' # cycle => (~busy /\ busy' /\ now' # now)]_vars
    /\ [][(now' # now /\ ~busy) => (busy' /\ cycle' = cycle + 1)]_vars

\* C13 witness: the second chain met a faulting handler and then a transport
\* error, and the scheduler is Idle.
C13_Witness ==
    /\ cycle = 2
    /\ ~busy
    /\ errored
    /\ Len(ran) = 2
    /\ ran[1].fault

\* C17: the reply list holds the handles of the calls issued in the current
\* chain, in issue order, so its length is chainIndex, never above the chain
\* length, and an unresolved call's handle is in it when its handler or
\* error handler runs; the list changes only by the append of a handle or by
\* startChain, which runs in a tick that finds the scheduler Idle.
C17_RepliesKept ==
    /\ [](/\ Len(replies) = chainIndex
          /\ chainIndex <= ChainLength
          /\ \A i \in 1..Len(replies) : replies[i] = [chain |-> cycle, step |-> i - 1]
          /\ \A r \in pending : \E i \in 1..Len(replies) : replies[i] = r)
    /\ [][replies' # replies =>
            \/ /\ Len(replies') = Len(replies) + 1
               /\ SubSeq(replies', 1, Len(replies)) = replies
               /\ cycle' = cycle
            \/ /\ ~busy /\ now' # now
               /\ cycle' = cycle + 1
               /\ replies' = <<IssuedBy(cycle')>>]_vars

\* C17 witness: the call of the last step of the second chain is unresolved
\* and the list holds the four handles of that chain.
C17_Witness ==
    /\ cycle = 2
    /\ busy
    /\ Len(replies) = ChainLength
    /\ pending = {replies[ChainLength]}
    /\ replies[1] = IssuedBy(2)

\* C18: between the steps of the event loop the lock is held exactly when a
\* call is unresolved, and an unresolved call is a call of the current chain;
\* a chain ended by a transport error leaves no call unresolved.  So a
\* handler runs only while the lock is held, on the reply of a call of the
\* current chain, and chainIndex advances within a chain only while the lock
\* is held and the chain has met no transport error.
C18_BusyIffUnresolved ==
    /\ [](/\ busy <=> pending # {}
          /\ \A r \in pending : r.chain = cycle
          /\ errored => pending = {})
    /\ [][Len(ran') = Len(ran) + 1 =>
            /\ busy /\ ~errored
            /\ [chain |-> cycle, step |-> ran'[Len(ran')].step] \in pending \ pending']_vars
    /\ [][(chainIndex' # chainIndex /\ cycle' = cycle) => (busy /\ ~errored)]_vars

\* C18 witness: the second chain was ended by a transport error at its third
\* call; the lock is free and no call is unresolved.
C18_Witness ==
    /\ cycle = 2
    /\ errored
    /\ ~busy
    /\ pending = {}
    /\ chainIndex = 3
    /\ Len(ran) = 2

\* The slots of a traffic ring buffer that hold a sample.
FilledSlots(rra) == {i \in 0..(TrafSamples - 1) : RRAget(rra, i) # None}

\* C19 as claimed: the receive buffer, the send buffer and the archive have
\* received the same number of samples, whatever faults the getnettotals
\* handlers met: the same slots of the two ring buffers are filled, as many
\* as the archive received samples (up to the ring's capacity).
C19_SameSamples ==
    /\ FilledSlots(trafRecv) = FilledSlots(trafSent)
    /\ Cardinality(FilledSlots(trafRecv)) = Min({rrdSamples, TrafSamples})

\* C14: while a chain is busy the merge has not been called in it; a cycle
\* that ran all its handlers called it exactly once.  A call of the merge is
\* made either by the handler of the last step, after the getnettotals
\* handler of the same cycle ran and in the step that leaves the scheduler
\* Idle, or by the error slot; unless fetch_all raises, it reads the ring
\* buffers as that getnettotals handler left them, with the sample of this
\* cycle in the newest slot when the handler did not fault.
C14_MergeOncePerCycle ==
    /\ [](busy => plotCalls = 0)
    /\ []((~busy /\ cycle > 0 /\ ~errored) => (Len(ran) = ChainLength /\ plotCalls = 1))
    /\ [][plotCalls' = plotCalls + 1 =>
            \/ /\ errored' /\ ~errored
               /\ ran' = ran
            \/ /\ [i \in 1..Len(ran) |-> ran[i].step] = <<0, 1, 2>>
               /\ Len(ran') = ChainLength /\ ran'[ChainLength].step = 3
               /\ ~busy'
               /\ UNCHANGED trafVars
               /\ \/ UNCHANGED plotVars
                  \/ /\ mergeIn' # <<>>
                     /\ mergeIn'[1].recv = trafRecv
                     /\ mergeIn'[1].sent = trafSent
                     /\ ~ran[3].fault => RRAget(mergeIn'[1].recv, -1) # None]_vars

\* C14 witness: the second cycle ran all four handlers, getnettotals without
\* a fault, and its one merge read the ring buffers holding both samples.
C14_Witness ==
    /\ cycle = 2
    /\ ~busy /\ ~errored
    /\ Len(ran) = ChainLength
    /\ ~ran[3].fault
    /\ plotCalls = 1
    /\ mergeIn # <<>>
    /\ mergeIn[1].recv = trafRecv
    /\ mergeIn[1].now = now
    /\ rrdSamples = 2

(* ---------------------- merge properties, continued -------------------- *)

\* The index at which the scan of the plot domain ends.
ScanIndex == IF InFilled = {} THEN DomainLen - 1 ELSE Min(InFilled)

\* C15: the archive points of a merged series are the buckets delivered
\* before the first one whose age is at or below boundaryAge, in delivery
\* order, with an unknown average emitted as 0; what follows them is the
\* boundary point, if any, and full-resolution points, so neither the bucket
\* that ended the scan nor a later one is an archive point.
C15_ArchiveScan ==
    mergeIn # <<>> =>
        LET rest == SubSeq(trafRecvPlot.x, InKept + 1, Len(trafRecvPlot.x))
        IN /\ Len(trafRecvPlot.x) >= InKept
           /\ \A p \in 1..InKept :
                /\ InAge(p) > BoundaryAge
                /\ trafRecvPlot.x[p] = InAge(p)
                /\ trafSentPlot.x[p] = InAge(p)
                /\ trafRecvPlot.y[p] = <<InValue(p, 1), 1>>
                /\ trafSentPlot.y[p] = <<InValue(p, 2), 1>>
           /\ \/ rest = FullResAges(ScanIndex)
              \/ rest = <<BoundaryAge>> \o FullResAges(ScanIndex + 1)

\* C15 witness: the first bucket is kept and its unknown send average is
\* emitted as 0; the second bucket is at or below the boundary, ends the
\* scan and is no archive point.
C15_Witness ==
    /\ mergeIn # <<>>
    /\ InFilled # {}
    /\ Len(InBuckets) = 2
    /\ InKept = 1
    /\ InBuckets[1].values[2] = None
    /\ trafSentPlot.y[1] = <<0, 1>>
    /\ InAge(2) < BoundaryAge
    /\ trafRecvPlot.x[2] = BoundaryAge

\* C15 witness of a later bucket: the first bucket ends the scan and the
\* second, although older than the boundary, is not in the series.
C15_WitnessLater ==
    /\ mergeIn # <<>>
    /\ InFilled # {}
    /\ Len(InBuckets) = 2
    /\ InKept = 0
    /\ InAge(2) > BoundaryAge
    /\ trafRecvPlot.x = FullResAges(ScanIndex)

\* The positions of a sequence of ages that hold a given age.
Occurrences(s, a) == {p \in 1..Len(s) : s[p] = a}

\* What follows the archive points when a boundary point is inserted and
\* the full-resolution start index advanced by one, and when not.  The
\* receive averages of the archive are 100 or more and the differences of
\* the ring buffer are below, so an inserted point differs from the
\* full-resolution value it replaces.
WithBoundaryPoint ==
    /\ SubSeq(trafRecvPlot.x, InKept + 1, Len(trafRecvPlot.x))
          = <<BoundaryAge>> \o FullResAges(ScanIndex + 1)
    /\ LET point == trafRecvPlot.y[InKept + 1]
           skipped == FullResSeries(InRecv, ScanIndex)[1]
       IN /\ point # None
          /\ skipped # None => ~RatEq(point, skipped)
    /\ SubSeq(trafRecvPlot.y, InKept + 2, Len(trafRecvPlot.y))
          = FullResSeries(InRecv, ScanIndex + 1)
    /\ SubSeq(trafSentPlot.y, InKept + 2, Len(trafSentPlot.y))
          = FullResSeries(InSent, ScanIndex + 1)
    /\ Cardinality(Occurrences(trafRecvPlot.x, BoundaryAge)) = 1
WithoutBoundaryPoint ==
    /\ SubSeq(trafRecvPlot.x, InKept + 1, Len(trafRecvPlot.x)) = FullResAges(ScanIndex)
    /\ SubSeq(trafRecvPlot.y, InKept + 1, Len(trafRecvPlot.y))
          = FullResSeries(InRecv, ScanIndex)
    /\ SubSeq(trafSentPlot.y, InKept + 1, Len(trafSentPlot.y))
          = FullResSeries(InSent, ScanIndex)

\* C16 as claimed: whenever the archive contributed a bucket, one point is
\* inserted at boundaryAge, the full-resolution start index is advanced by
\* one and boundaryAge occurs exactly once; when it contributed none, no
\* point is inserted and no index skipped.
C16_Original ==
    mergeIn # <<>> =>
        IF InKept > 0 THEN WithBoundaryPoint ELSE WithoutBoundaryPoint

\* C16 as amended: the point is inserted, and the index advanced, exactly
\* when the archive contributed a bucket and the scan was ended by a bucket
\* at or below boundaryAge; when the archive contributed none, or the kept
\* buckets were all it delivered, no point is inserted and no index skipped.
C16_BoundaryPoint ==
    mergeIn # <<>> =>
        IF InKept > 0 /\ InStops # {} THEN WithBoundaryPoint ELSE WithoutBoundaryPoint

\* C16 witness: one bucket kept, the scan ended by a second; the series is
\* the kept bucket, the boundary point and the full-resolution points after
\* the boundary sample.
C16_Witness ==
    /\ mergeIn # <<>>
    /\ InFilled # {}
    /\ InKept = 1
    /\ InStops = {2}
    /\ trafRecvPlot.x = <<InAge(1), BoundaryAge>> \o FullResAges(ScanIndex + 1)
    /\ Len(trafRecvPlot.x) = 3

\* C16 witness of the other case: the only bucket is kept, and the series
\* continues with the boundary sample itself.
C16_WitnessExhausted ==
    /\ mergeIn # <<>>
    /\ InFilled # {}
    /\ InKept = 1
    /\ InStops = {}
    /\ trafRecvPlot.x = <<InAge(1)>> \o FullResAges(ScanIndex)

\* C20: the three lists of a merge, ages, recv and sent, have the same
\* length, whether the archive yields nothing, is exhausted above the
\* boundary, or a boundary point is inserted, and whether or not the plot
\* domain has a filled slot.
C20_EqualLengths ==
    mergeIn # <<>> =>
        /\ trafSentPlot.x = trafRecvPlot.x
        /\ Len(trafRecvPlot.y) = Len(trafRecvPlot.x)
        /\ Len(trafSentPlot.y) = Len(trafRecvPlot.x)

\* C20 witness: no slot of the plot domain is filled, a bucket was kept and
\* a second one ended the scan, so the start index is past the end of the
\* domain: two ages, two receive values, two send values.
C20_Witness ==
    /\ mergeIn # <<>>
    /\ InFilled = {}
    /\ InKept = 1
    /\ InStops = {2}
    /\ Len(trafRecvPlot.x) = 2
    /\ Len(trafRecvPlot.y) = 2
    /\ Len(trafSentPlot.y) = 2

\* C20 witnesses of the other branches: an empty archive, and an archive
\* exhausted above the boundary, each with a filled slot in the domain.
C20_WitnessEmpty ==
    /\ mergeIn # <<>>
    /\ InFilled # {}
    /\ InBuckets = <<>>
    /\ Len(trafRecvPlot.y) = DomainLen - ScanIndex
C20_WitnessExhausted ==
    /\ mergeIn # <<>>
    /\ InFilled # {}
    /\ InKept = 2
    /\ Len(trafSentPlot.y) = 2 + DomainLen - ScanIndex

====
